---- MODULE Spec2Model ----
(***************************************************************************)
(* A model of the smart-me API client (client.go, options.go, models.go).  *)
(*                                                                         *)
(* Strings that the program transforms (URLs, paths, device identifiers,   *)
(* credentials) are sequences of tokens.  The tokens ":", "/", ".", "?",   *)
(* "#" and "%" are the characters of that name; every other token is a run *)
(* of letters with no special meaning to net/url ("x", "api", ...).        *)
(***************************************************************************)
EXTENDS Integers, Sequences, FiniteSets, TLC

VARIABLES heap, clients, lastNew, calls

vars == <<heap, clients, lastNew, calls>>

\* The nil of a pointer, an error or an interface; NilPtr the nil *http.Client.
Nil == [nil |-> TRUE]

NilPtr == 0

URLError(m) == [kind |-> "url", msg |-> m]

----------------------------------------------------------------------------
(* Bounds of the model.                                                    *)

MaxOpts == 2

MaxIdLen == 3

MaxDevices == 2

\* The clients a program constructs, and the goroutines that call them: one
\* caller, whose call in flight interleaves with the construction of clients.
ClientIds == {1, 2}

Goroutines == {1}

----------------------------------------------------------------------------
(* Sequence helpers (package strings).                                     *)

Take(s, n) == SubSeq(s, 1, n)

Drop(s, n) == SubSeq(s, n + 1, Len(s))

Index(s, c) ==
    IF \E i \in 1..Len(s) : s[i] = c
    THEN CHOOSE i \in 1..Len(s) : s[i] = c /\ \A j \in 1..(i - 1) : s[j] # c
    ELSE 0

LastIndex(s, c) ==
    IF \E i \in 1..Len(s) : s[i] = c
    THEN CHOOSE i \in 1..Len(s) : s[i] = c /\ \A j \in (i + 1)..Len(s) : s[j] # c
    ELSE 0

Contains(s, c) == \E i \in 1..Len(s) : s[i] = c

Count(s, c) == Cardinality({i \in 1..Len(s) : s[i] = c})

HasPrefix(s, p) == Len(s) >= Len(p) /\ Take(s, Len(p)) = p

\* strings.Cut(s, c): the text before the first c and the text after it.
CutBefore(s, c) == IF Index(s, c) = 0 THEN s ELSE Take(s, Index(s, c) - 1)

CutAfter(s, c) == IF Index(s, c) = 0 THEN <<>> ELSE Drop(s, Index(s, c))

RECURSIVE Split(_, _)
Split(s, c) ==
    IF Index(s, c) = 0 THEN <<s>>
    ELSE <<CutBefore(s, c)>> \o Split(CutAfter(s, c), c)

RECURSIVE Itoa(_)
Itoa(n) ==
    LET d == <<"0", "1", "2", "3", "4", "5", "6", "7", "8", "9">>
    IN  IF n < 10 THEN <<d[n + 1]>> ELSE Itoa(n \div 10) \o <<d[(n % 10) + 1]>>

----------------------------------------------------------------------------
(* net/url as the client uses it.                                          *)

IsLetter(c) == c \notin {":", "/", ".", "?", "#", "%"}

\* url.getScheme: "none", "error" (a leading colon) or the index of the colon.
RECURSIVE getScheme(_, _)
getScheme(s, i) ==
    IF i > Len(s) THEN 0
    ELSE IF IsLetter(s[i]) THEN getScheme(s, i + 1)
    ELSE IF s[i] = "." THEN (IF i = 1 THEN 0 ELSE getScheme(s, i + 1))
    ELSE IF s[i] = ":" THEN (IF i = 1 THEN -1 ELSE i)
    ELSE 0

\* url.unescape fails on a '%' that two hex digits do not follow; no token of
\* the model is a hex digit.
BadEscape(s) == Contains(s, "%")

\* url.validOptionalPort over an alphabet without digits: only ":" passes.
parseHostOK(host) ==
    /\ (LastIndex(host, ":") # 0 => LastIndex(host, ":") = Len(host))
    /\ ~BadEscape(host)

\* url.Parse(rawURL), viaRequest = false, in the order of its steps; each
\* step hands what it has found to the next.

\* setPath and setFragment, then the URL.
parseEnd(scheme, hasAuth, auth, path, query, force, frag) ==
    IF hasAuth /\ ~parseHostOK(auth) THEN [err |-> URLError("invalid host"), url |-> Nil]
    ELSE IF BadEscape(path) \/ BadEscape(frag)
    THEN [err |-> URLError("invalid URL escape"), url |-> Nil]
    ELSE [err |-> Nil,
          url |-> [Scheme |-> scheme, Opaque |-> <<>>, Host |-> auth, Path |-> path,
                   RawQuery |-> query, ForceQuery |-> force, Fragment |-> frag]]

\* The authority: what follows "//" up to the next "/".
parseAuthority(scheme, hasAuth, rest, query, force, frag) ==
    IF hasAuth
    THEN parseEnd(scheme, TRUE, CutBefore(Drop(rest, 2), "/"),
                  Drop(rest, 2 + Len(CutBefore(Drop(rest, 2), "/"))),
                  query, force, frag)
    ELSE parseEnd(scheme, FALSE, <<>>, rest, query, force, frag)

\* A rest that does not start with "/": an opaque URL under a scheme, and no
\* colon in the first segment without one.
parseRest(scheme, rest, query, force, frag) ==
    IF ~HasPrefix(rest, <<"/">>) /\ scheme # <<>> THEN
        IF BadEscape(frag) THEN [err |-> URLError("invalid URL escape"), url |-> Nil]
        ELSE [err |-> Nil,
              url |-> [Scheme |-> scheme, Opaque |-> rest, Host |-> <<>>, Path |-> <<>>,
                       RawQuery |-> query, ForceQuery |-> force, Fragment |-> frag]]
    ELSE IF ~HasPrefix(rest, <<"/">>) /\ Contains(CutBefore(rest, "/"), ":")
    THEN [err |-> URLError("first path segment in URL cannot contain colon"), url |-> Nil]
    ELSE parseAuthority(scheme,
                        HasPrefix(rest, <<"/", "/">>)
                            /\ (scheme # <<>> \/ ~HasPrefix(rest, <<"/", "/", "/">>)),
                        rest, query, force, frag)

\* The query: after the first "?"; a lone final "?" forces an empty one.
parseQuery(scheme, rest, frag) ==
    IF Len(rest) > 0 /\ rest[Len(rest)] = "?" /\ Count(rest, "?") = 1
    THEN parseRest(scheme, Take(rest, Len(rest) - 1), <<>>, TRUE, frag)
    ELSE parseRest(scheme, CutBefore(rest, "?"), CutAfter(rest, "?"), FALSE, frag)

\* The scheme: si is what getScheme found.
parseScheme(u, si, frag) ==
    IF si = -1 THEN [err |-> URLError("missing protocol scheme"), url |-> Nil]
    ELSE IF si > 0 THEN parseQuery(Take(u, si - 1), Drop(u, si), frag)
    ELSE parseQuery(<<>>, u, frag)

\* The fragment is cut off first.
parseFragment(u, frag) == parseScheme(u, getScheme(u, 1), frag)

Parse(rawURL) == parseFragment(CutBefore(rawURL, "#"), CutAfter(rawURL, "#"))

\* URL.EscapedPath: in path mode only '?' (and '#') are escaped.
RECURSIVE EscapedPath(_)
EscapedPath(p) ==
    IF p = <<>> THEN <<>>
    ELSE (IF p[1] = "?" THEN <<"%3F">> ELSE IF p[1] = "#" THEN <<"%23">> ELSE <<p[1]>>)
         \o EscapedPath(Tail(p))

\* URL.EscapedFragment: a '#' inside the fragment is escaped.
RECURSIVE EscapedFragment(_)
EscapedFragment(f) ==
    IF f = <<>> THEN <<>>
    ELSE (IF f[1] = "#" THEN <<"%23">> ELSE <<f[1]>>) \o EscapedFragment(Tail(f))

\* The loop of url.resolvePath over the elements of the merged path: dst is
\* the builder (it starts as "/"), first the flag of the same name.
RECURSIVE removeDots(_, _, _)
removeDots(elems, dst, first) ==
    IF elems = <<>> THEN dst
    ELSE LET elem == Head(elems)
             str == Tail(dst)
             idx == LastIndex(str, "/")
             last == Len(elems) = 1
             slash == IF last THEN <<"/">> ELSE <<>>
         IN  IF elem = <<".">> THEN
                 IF last THEN dst \o <<"/">> ELSE removeDots(Tail(elems), dst, FALSE)
             ELSE IF elem = <<".", ".">> THEN
                 IF idx = 0
                 THEN (IF last THEN <<"/", "/">>
                       ELSE removeDots(Tail(elems), <<"/">>, TRUE))
                 ELSE (IF last THEN <<"/">> \o Take(str, idx - 1) \o <<"/">>
                       ELSE removeDots(Tail(elems), <<"/">> \o Take(str, idx - 1), first))
             ELSE removeDots(Tail(elems),
                             dst \o (IF first THEN <<>> ELSE <<"/">>) \o elem, FALSE)

\* url.resolvePath(base, ref).
resolvePath(base, ref) ==
    LET full == IF ref = <<>> THEN base
                ELSE IF ref[1] # "/" THEN Take(base, LastIndex(base, "/")) \o ref
                ELSE ref
        r == removeDots(Split(full, "/"), <<"/">>, TRUE)
    IN  IF full = <<>> THEN <<>>
        ELSE IF Len(r) > 1 /\ r[2] = "/" THEN Tail(r) ELSE r

\* URL.ResolveReference(ref) on base u.
ResolveReference(u, ref) ==
    LET url == [ref EXCEPT !.Scheme = IF ref.Scheme = <<>> THEN u.Scheme ELSE ref.Scheme]
        inherit == ref.Path = <<>> /\ ~ref.ForceQuery /\ ref.RawQuery = <<>>
        url2 == IF inherit
                THEN [url EXCEPT !.RawQuery = u.RawQuery,
                                 !.Fragment = IF ref.Fragment = <<>> THEN u.Fragment
                                              ELSE ref.Fragment]
                ELSE url
    IN  IF ref.Scheme # <<>> \/ ref.Host # <<>>
        THEN [url EXCEPT !.Path = resolvePath(EscapedPath(ref.Path), <<>>)]
        ELSE IF ref.Opaque # <<>> THEN [url EXCEPT !.Host = <<>>, !.Path = <<>>]
        ELSE IF ref.Path = <<>> /\ u.Opaque # <<>>
        THEN [url2 EXCEPT !.Opaque = u.Opaque, !.Host = <<>>, !.Path = <<>>]
        ELSE [url2 EXCEPT !.Host = u.Host,
                          !.Path = resolvePath(EscapedPath(u.Path), EscapedPath(ref.Path))]

\* URL.String().
String(u) ==
    LET path == EscapedPath(u.Path)
        head == (IF u.Scheme # <<>> THEN u.Scheme \o <<":">> ELSE <<>>)
                \o (IF u.Opaque = <<>> /\ (u.Scheme # <<>> \/ u.Host # <<>>)
                          /\ (u.Host # <<>> \/ u.Path # <<>>)
                    THEN <<"/", "/">> \o u.Host ELSE <<>>)
        body == IF u.Opaque # <<>> THEN u.Opaque
                ELSE (IF path # <<>> /\ path[1] # "/" /\ u.Host # <<>> THEN <<"/">> ELSE <<>>)
                     \o (IF head = <<>> /\ Contains(CutBefore(path, "/"), ":")
                         THEN <<".", "/">> ELSE <<>>)
                     \o path
    IN  head \o body
        \o (IF u.ForceQuery \/ u.RawQuery # <<>> THEN <<"?">> \o u.RawQuery ELSE <<>>)
        \o (IF u.Fragment # <<>> THEN <<"#">> \o EscapedFragment(u.Fragment) ELSE <<>>)

----------------------------------------------------------------------------
(* Construction: client.go NewClient and the options of options.go.        *)
(*                                                                         *)
(* heap is the store of http.Client values, addressed by index; a Client   *)
(* holds such an address in httpClient, as the Go struct holds a pointer.  *)

defaultBaseURL == <<"https", ":", "/", "/", "api.smart-me.com", "/">>

defaultTimeout == 10

ErrUsername == [kind |-> "validation", msg |-> "username must not be empty"]

OptHTTPClient(a) == [kind |-> "WithHTTPClient", arg |-> a]

OptBaseURL(b) == [kind |-> "WithBaseURL", arg |-> b]

OptTimeout(t) == [kind |-> "WithTimeout", arg |-> t]

\* An option acts on st = [c |-> the Client under construction, heap |-> the store].
WithHTTPClient(st, httpClient) == [st EXCEPT !.c.httpClient = httpClient]

\* if u, err := url.Parse(baseURL); err == nil { c.baseURL = u }, with p what
\* url.Parse returned.
\* An assignment that does not look at err.
setBaseURLUnchecked(st, p) == [st EXCEPT !.c.baseURL = p.url]

setBaseURL(st, p) == IF p.err = Nil THEN [st EXCEPT !.c.baseURL = p.url] ELSE st

WithBaseURL(st, baseURL) == setBaseURL(st, Parse(baseURL))

WithTimeout(st, timeout) ==
    LET st1 == IF st.c.httpClient = NilPtr
               THEN [c |-> [st.c EXCEPT !.httpClient = Len(st.heap) + 1],
                     heap |-> Append(st.heap, [Timeout |-> 0])]
               ELSE st
    IN  [st1 EXCEPT !.heap[st1.c.httpClient].Timeout = timeout]

ApplyOpt(st, opt) ==
    CASE opt.kind = "WithHTTPClient" -> WithHTTPClient(st, opt.arg)
      [] opt.kind = "WithBaseURL" -> WithBaseURL(st, opt.arg)
      [] opt.kind = "WithTimeout" -> WithTimeout(st, opt.arg)

\* for _, opt := range opts { opt(c) }
RECURSIVE ApplyOpts(_, _)
ApplyOpts(st, opts) ==
    IF opts = <<>> THEN st ELSE ApplyOpts(ApplyOpt(st, Head(opts)), Tail(opts))

\* if c.httpClient == nil { c.httpClient = &http.Client{Timeout: defaultTimeout} }
defaultHTTPClient(st) ==
    IF st.c.httpClient = NilPtr
    THEN [client |-> [st.c EXCEPT !.httpClient = Len(st.heap) + 1], err |-> Nil,
          heap |-> Append(st.heap, [Timeout |-> defaultTimeout])]
    ELSE [client |-> st.c, err |-> Nil, heap |-> st.heap]

\* c := &Client{baseURL: baseURL, username: username, password: password}
newClientStruct(h, username, password) ==
    [c |-> [httpClient |-> NilPtr, baseURL |-> Parse(defaultBaseURL).url,
            username |-> username, password |-> password],
     heap |-> h]

\* A NewClient that also refuses an empty password.
NewClientNeedsPassword(h, username, password, opts) ==
    IF username = <<>> \/ password = <<>>
    THEN [client |-> Nil, err |-> ErrUsername, heap |-> h]
    ELSE defaultHTTPClient(ApplyOpts(newClientStruct(h, username, password), opts))

\* NewClient(username, password, opts...) run on store h: the client it
\* returns (Nil with an error), the error and the store it leaves.
NewClient(h, username, password, opts) ==
    IF username = <<>>
    THEN [client |-> Nil, err |-> ErrUsername, heap |-> h]
    ELSE defaultHTTPClient(ApplyOpts(newClientStruct(h, username, password), opts))

----------------------------------------------------------------------------
(* Request construction: Client.newRequest and the four API calls up to    *)
(* their call of Client.do.                                                *)

\* time.Time.Format(time.RFC3339): the wall clock text and the zone text.
FormatRFC3339(t) == <<t.wall, t.offset>>

\* Request.SetBasicAuth: "Basic " + base64(username + ":" + password).  b64
\* holds the text that is base64-encoded (base64 is decoded without loss).
SetBasicAuth(username, password) ==
    [scheme |-> "Basic", b64 |-> username \o <<":">> \o password]

\* Request.BasicAuth on the receiving side: the text splits at its first colon.
BasicAuth(auth) == <<CutBefore(auth.b64, ":"), CutAfter(auth.b64, ":")>>

SetHeader(req, key, value) ==
    [req EXCEPT !.Header = [k \in DOMAIN req.Header \cup {key} |->
                               IF k = key THEN value ELSE req.Header[k]]]

\* url.removeEmptyPort
removeEmptyPort(host) ==
    IF host # <<>> /\ host[Len(host)] = ":" THEN Take(host, Len(host) - 1) ELSE host

\* http.NewRequestWithContext with pu what url.Parse made of the URL text: a
\* nil context and an unparseable URL are refused.
NewRequestWithContext(ctx, method, pu, body) ==
    IF ctx = "nil" THEN [req |-> Nil, err |-> [kind |-> "http", msg |-> "net/http: nil Context"]]
    ELSE IF pu.err # Nil THEN [req |-> Nil, err |-> pu.err]
    ELSE [req |-> [Method |-> method,
                   URL |-> [pu.url EXCEPT !.Host = removeEmptyPort(pu.url.Host)],
                   Header |-> [x \in {} |-> Nil]],
          err |-> Nil]

\* The headers newRequest sets on the request r it built.
setHeaders(c, r, body) ==
    IF r.err # Nil THEN [req |-> Nil, err |-> r.err]
    ELSE [req |-> SetHeader(SetHeader(r.req, "Authorization",
                                      SetBasicAuth(c.username, c.password)),
                            "Accept", "application/json"),
          err |-> Nil]

\* newRequest from rel, what url.Parse made of the path.
resolveAndBuild(c, ctx, method, rel, body) ==
    IF rel.err # Nil THEN [req |-> Nil, err |-> rel.err]
    ELSE setHeaders(c,
                    NewRequestWithContext(ctx, method,
                        Parse(String(ResolveReference(c.baseURL, rel.url))), body),
                    body)

\* No call of the client passes a body; the Content-Type branch is not taken.
newRequest(c, ctx, method, path, body) == resolveAndBuild(c, ctx, method, Parse(path), body)

ErrDeviceID == [kind |-> "validation", msg |-> "deviceID must not be empty"]

FailedCreate(e) == [kind |-> "request", msg |-> "failed to create request", wraps |-> e]

\* What a call has when it reaches c.do: an early return, or the request and
\* the type of the destination it passes.
Early(e) == [ret |-> [val |-> Nil, err |-> e], req |-> Nil, dest |-> "none"]

Built(r, dest) ==
    IF r.err # Nil THEN Early(FailedCreate(r.err))
    ELSE [ret |-> Nil, req |-> r.req, dest |-> dest]

GetDevices(c, ctx) ==
    Built(newRequest(c, ctx, "GET", <<"api", "/", "Devices">>, Nil), "[]Device")

GetValues(c, ctx, deviceID) ==
    IF deviceID = <<>> THEN Early(ErrDeviceID)
    ELSE Built(newRequest(c, ctx, "GET", <<"api", "/", "Values", "/">> \o deviceID, Nil),
               "DeviceValues")

GetValuesInPast(c, ctx, deviceID, date) ==
    IF deviceID = <<>> THEN Early(ErrDeviceID)
    ELSE Built(newRequest(c, ctx, "GET",
                          <<"api", "/", "ValuesInPast", "/">> \o deviceID
                              \o <<"?", "date=">> \o FormatRFC3339(date), Nil),
               "Value")

\* GetValuesInPastMultiple without its test of deviceID.
GetValuesInPastMultipleUnchecked(c, ctx, deviceID, startDate, endDate) ==
    Built(newRequest(c, ctx, "GET",
                     <<"api", "/", "ValuesInPastMultiple", "/">> \o deviceID
                         \o <<"?", "startDate=">> \o FormatRFC3339(startDate)
                         \o <<"&", "endDate=">> \o FormatRFC3339(endDate), Nil),
          "[]Value")

GetValuesInPastMultiple(c, ctx, deviceID, startDate, endDate) ==
    IF deviceID = <<>> THEN Early(ErrDeviceID)
    ELSE Built(newRequest(c, ctx, "GET",
                          <<"api", "/", "ValuesInPastMultiple", "/">> \o deviceID
                              \o <<"?", "startDate=">> \o FormatRFC3339(startDate)
                              \o <<"&", "endDate=">> \o FormatRFC3339(endDate), Nil),
               "[]Value")

----------------------------------------------------------------------------
(* Response bodies and encoding/json's decoding of them into the types of  *)
(* models.go.                                                              *)

JNull == [t |-> "null"]

JNum(n) == [t |-> "number", n |-> n]

JStr(str) == [t |-> "string", s |-> str]

JArr(a) == [t |-> "array", a |-> a]

JObj(o) == [t |-> "object", o |-> o]

\* A body that is not a JSON text.
JBad == [t |-> "invalid"]

\* Go types: scalars, *T, []T and structs keyed by their json tags.
TString == [k |-> "string"]

TFloat == [k |-> "number"]

TTime == [k |-> "time"]

TPtr(T) == [k |-> "ptr", e |-> T]

TSlice(T) == [k |-> "slice", e |-> T]

TStruct(fields) == [k |-> "struct", f |-> fields]

\* Device: every field is a pointer with a json tag (models.go); the model
\* keeps one string field and one numeric field of the record.
\* A Device whose fields are values, not pointers.
DeviceByValue == TStruct([id |-> TString, activePower |-> TFloat])

Device == TStruct([id |-> TPtr(TString), activePower |-> TPtr(TFloat)])

ObisValue == TStruct([obis |-> TString, value |-> TFloat])

DeviceValues ==
    TStruct([deviceId |-> TString, date |-> TTime, values |-> TSlice(ObisValue)])

Value == TStruct([date |-> TTime, value |-> TFloat])

ZeroTime == [wall |-> "0001-01-01T00:00:00", offset |-> "Z"]

RECURSIVE Zero(_)
Zero(T) ==
    CASE T.k = "string" -> [str |-> <<>>]
      [] T.k = "number" -> [num |-> 0]
      [] T.k = "time" -> [time |-> ZeroTime]
      [] T.k = "ptr" -> Nil
      [] T.k = "slice" -> Nil
      [] T.k = "struct" -> [fields |-> [key \in DOMAIN T.f |-> Zero(T.f[key])]]

TypeError == [kind |-> "json", msg |-> "json: cannot unmarshal"]

SyntaxError == [kind |-> "json", msg |-> "invalid character"]

TimeError == [kind |-> "json", msg |-> "parsing time"]

\* time.Time.UnmarshalJSON: the text must be an RFC 3339 time.
ParseRFC3339(str) ==
    IF Len(str) = 2 /\ str[2] \in {"Z", "+02:00"}
    THEN [time |-> [wall |-> str[1], offset |-> str[2]]]
    ELSE Nil

FirstErr(errs) ==
    IF \E i \in 1..Len(errs) : errs[i] # Nil
    THEN errs[CHOOSE i \in 1..Len(errs) :
                  errs[i] # Nil /\ \A j \in 1..(i - 1) : errs[j] = Nil]
    ELSE Nil

\* The keys of a struct type in declaration order do not matter to the value;
\* the first error is taken in a fixed order of the keys.
RECURSIVE SetToSeq(_)
SetToSeq(S) ==
    IF S = {} THEN <<>>
    ELSE LET x == CHOOSE x \in S : TRUE IN <<x>> \o SetToSeq(S \ {x})

\* json: decoding JSON value j into a destination of type T holding cur.
\* null leaves a scalar or struct as it is and sets a pointer or slice to nil;
\* a value of the wrong type leaves an error and decoding goes on.
RECURSIVE Unmarshal(_, _, _)
Unmarshal(T, j, cur) ==
    IF j.t = "null" THEN
        [val |-> IF T.k \in {"ptr", "slice"} THEN Nil ELSE cur, err |-> Nil]
    ELSE CASE T.k = "string" ->
                IF j.t = "string" THEN [val |-> [str |-> j.s], err |-> Nil]
                ELSE [val |-> cur, err |-> TypeError]
           [] T.k = "number" ->
                IF j.t = "number" THEN [val |-> [num |-> j.n], err |-> Nil]
                ELSE [val |-> cur, err |-> TypeError]
           [] T.k = "time" ->
                IF j.t = "string" /\ ParseRFC3339(j.s) # Nil
                THEN [val |-> ParseRFC3339(j.s), err |-> Nil]
                ELSE [val |-> cur, err |-> TimeError]
           [] T.k = "ptr" ->
                LET r == Unmarshal(T.e, j, IF cur = Nil THEN Zero(T.e) ELSE cur.ptr)
                IN  [val |-> [ptr |-> r.val], err |-> r.err]
           [] T.k = "slice" ->
                IF j.t = "array"
                THEN LET rs == [i \in 1..Len(j.a) |-> Unmarshal(T.e, j.a[i], Zero(T.e))]
                     IN  [val |-> [elems |-> [i \in 1..Len(j.a) |-> rs[i].val]],
                          err |-> FirstErr([i \in 1..Len(j.a) |-> rs[i].err])]
                ELSE [val |-> cur, err |-> TypeError]
           [] T.k = "struct" ->
                IF j.t = "object"
                THEN LET keys == SetToSeq(DOMAIN T.f)
                         r(key) == IF key \in DOMAIN j.o
                                   THEN Unmarshal(T.f[key], j.o[key], cur.fields[key])
                                   ELSE [val |-> cur.fields[key], err |-> Nil]
                     IN  [val |-> [fields |-> [key \in DOMAIN T.f |-> r(key).val]],
                          err |-> FirstErr([i \in 1..Len(keys) |-> r(keys[i]).err])]
                ELSE [val |-> cur, err |-> TypeError]

\* json.NewDecoder(body).Decode(v): a body that is not JSON fails before
\* anything is stored.
Decode(T, body, cur) ==
    IF body.t = "invalid" THEN [val |-> cur, err |-> SyntaxError]
    ELSE Unmarshal(T, body, cur)

\* The destination each call declares and the value it returns from it.
DestType(dest) ==
    CASE dest = "[]Device" -> TSlice(Device)
      [] dest = "DeviceValues" -> DeviceValues
      [] dest = "Value" -> Value
      [] dest = "[]Value" -> TSlice(Value)

Returned(dest, v) == IF dest \in {"DeviceValues", "Value"} THEN [ptr |-> v] ELSE v

----------------------------------------------------------------------------
(* The transport (net/http) as Client.do meets it, and contexts.           *)

\* http.StatusText for the codes the model's server answers with.
StatusText(code) ==
    CASE code = 200 -> "OK"
      [] code = 304 -> "Not Modified"
      [] code = 399 -> ""
      [] code = 400 -> "Bad Request"
      [] code = 404 -> "Not Found"
      [] code = 500 -> "Internal Server Error"

\* The response the transport hands back: Status is the status line's text.
Response(code, body) ==
    [StatusCode |-> code, Status |-> Itoa(code) \o <<" ", StatusText(code)>>, Body |-> body]

Canceled == [kind |-> "context", msg |-> "context canceled"]

DeadlineExceeded == [kind |-> "context", msg |-> "context deadline exceeded"]

\* ctx.Err() of a context in state ctx.
CtxErr(ctx) ==
    CASE ctx = "canceled" -> Canceled
      [] ctx = "deadline" -> DeadlineExceeded
      [] OTHER -> Nil

\* <-ctx.Done() is ready.
CtxDone(ctx) == ctx \in {"canceled", "deadline"}

\* The error http.Client.Do returns: a *url.Error around its cause.
DoError(cause) == [kind |-> "url.Error", msg |-> "Get", wraps |-> cause]

NetError == [kind |-> "net", msg |-> "connection refused"]

TimeoutError == [kind |-> "timeout", msg |-> "Client.Timeout exceeded"]

SchemeError == [kind |-> "net", msg |-> "unsupported protocol scheme or no Host"]

\* The transport sends only http and https requests that name a host.
Sendable(req) == req.URL.Scheme \in {<<"http">>, <<"https">>} /\ req.URL.Host # <<>>

----------------------------------------------------------------------------
(* Client.do and the part of each API call that follows it.                *)

\* A test of the status that lets 400 through.
IsAPIErrorAbove(StatusCode) == StatusCode > 400

IsAPIError(StatusCode) == StatusCode >= 400

\* fmt.Errorf("API error: %s (status code: %d)", resp.Status, resp.StatusCode)
APIError(resp) ==
    [kind |-> "api",
     text |-> <<"API error: ">> \o resp.Status \o <<" (status code: ">>
                  \o Itoa(resp.StatusCode) \o <<")">>]

\* An error of do that names the decoding but drops its cause.
DecodeErrorBare(e) == [kind |-> "decode", msg |-> "error decoding response", wraps |-> Nil]

\* fmt.Errorf("error decoding response: %w", err)
DecodeError(e) == [kind |-> "decode", msg |-> "error decoding response", wraps |-> e]

\* A select that also takes the expiry of the transport's own timeout for the
\* context's deadline.
SendFailureTimeoutAsDeadline(ctx, err) ==
    IF CtxDone(ctx) THEN CtxErr(ctx)
    ELSE IF err.wraps = TimeoutError THEN DeadlineExceeded
    ELSE err

\* A select that always returns the transport's error.
SendFailureRaw(ctx, err) == err

\* The select of do on a failed send: the context's error when it is done,
\* else the transport's error.
SendFailure(ctx, err) == IF CtxDone(ctx) THEN CtxErr(ctx) ELSE err

\* What an API call returns once do has returned (val, err).
CallReturn(dest, val, err) ==
    IF err # Nil THEN [val |-> Nil, err |-> err]
    ELSE [val |-> Returned(dest, val), err |-> Nil]

IdleCall ==
    [pc |-> "idle", op |-> "none", client |-> 0, ctx |-> "nil", ctxDoneAt |-> "never",
     deviceID |-> <<>>, dates |-> <<>>, req |-> Nil, dest |-> "none", sends |-> 0,
     tmo |-> 0, sendErr |-> Nil, resp |-> Nil, decodes |-> 0, closes |-> 0,
     stored |-> Nil, decErr |-> Nil, ret |-> Nil]

Plan(c, op, ctx, deviceID, dates) ==
    CASE op = "GetDevices" -> GetDevices(c, ctx)
      [] op = "GetValues" -> GetValues(c, ctx, deviceID)
      [] op = "GetValuesInPast" -> GetValuesInPast(c, ctx, deviceID, dates[1])
      [] op = "GetValuesInPastMultiple" ->
            GetValuesInPastMultiple(c, ctx, deviceID, dates[1], dates[2])

\* The call as it starts.
NewCall(i, op, ctx, deviceID, dates) ==
    [IdleCall EXCEPT !.op = op, !.client = i, !.ctx = ctx,
                     !.ctxDoneAt = IF CtxDone(ctx) THEN "before" ELSE "never",
                     !.deviceID = deviceID, !.dates = dates]

\* The call after its plan: returned, or inside c.httpClient.Do, which has
\* read the Timeout of the client's http.Client.
Started(c0, plan, timeout) ==
    IF plan.ret # Nil
    THEN [c0 EXCEPT !.pc = "done", !.ret = plan.ret]
    ELSE [c0 EXCEPT !.pc = "do", !.req = plan.req, !.dest = plan.dest,
                    !.sends = 1, !.tmo = timeout]

\* Goroutine g calls op on client i: validation and newRequest, then the
\* request is handed to c.httpClient.Do.
StartCall(g, i, op, ctx, deviceID, dates) ==
    /\ calls[g].pc = "idle"
    /\ i \in 1..Len(clients)
    /\ clients[i] # Nil
    /\ calls' = [calls EXCEPT ![g] =
           Started(NewCall(i, op, ctx, deviceID, dates),
                   Plan(clients[i], op, ctx, deviceID, dates),
                   heap[clients[i].httpClient].Timeout)]
    /\ UNCHANGED <<heap, clients, lastNew>>

\* The errors with which the send of g's request may end now.
SendErrors(g) ==
    IF ~Sendable(calls[g].req) THEN {DoError(SchemeError)}
    ELSE {DoError(NetError)}
         \cup (IF CtxDone(calls[g].ctx) THEN {DoError(CtxErr(calls[g].ctx))} ELSE {})
         \cup (IF calls[g].tmo > 0 THEN {DoError(TimeoutError)} ELSE {})

\* c.httpClient.Do returns an error: do goes on to its select.
DoFails(g, err) ==
    /\ calls[g].pc = "do"
    /\ err \in SendErrors(g)
    /\ calls' = [calls EXCEPT ![g].pc = "sendErr", ![g].sendErr = err]
    /\ UNCHANGED <<heap, clients, lastNew>>

\* A do that sends the request once more after a failed send.
HandleSendErrorRetry(g) ==
    /\ calls[g].pc = "sendErr"
    /\ calls' = [calls EXCEPT
           ![g] = IF calls[g].sends < 2
                  THEN [@ EXCEPT !.pc = "do", !.sendErr = Nil, !.sends = @ + 1]
                  ELSE [@ EXCEPT !.pc = "done",
                                 !.ret = CallReturn(calls[g].dest, Nil,
                                             SendFailure(calls[g].ctx, calls[g].sendErr))]]
    /\ UNCHANGED <<heap, clients, lastNew>>

\* do's select on the failed send, and the call's return.
HandleSendError(g) ==
    /\ calls[g].pc = "sendErr"
    /\ calls' = [calls EXCEPT
           ![g].pc = "done",
           ![g].ret = CallReturn(calls[g].dest, Nil,
                                 SendFailure(calls[g].ctx, calls[g].sendErr))]
    /\ UNCHANGED <<heap, clients, lastNew>>

\* A do whose deferred Close is registered after the test of the status.
DoReturnsLeak(g, resp) ==
    /\ calls[g].pc = "do"
    /\ Sendable(calls[g].req)
    /\ calls[g].ctxDoneAt # "before"
    /\ calls' = [calls EXCEPT ![g] =
           IF IsAPIError(resp.StatusCode)
           THEN [@ EXCEPT !.pc = "done", !.resp = resp,
                          !.ret = CallReturn(calls[g].dest, Nil, APIError(resp))]
           ELSE [@ EXCEPT !.pc = "decode", !.resp = resp]]
    /\ UNCHANGED <<heap, clients, lastNew>>

\* c.httpClient.Do returns a response: do classifies its status; an API
\* error returns at once (the deferred Close runs), as does a response for
\* which no destination was passed; otherwise the body is handed to the
\* decoder.
DoReturns(g, resp) ==
    /\ calls[g].pc = "do"
    /\ Sendable(calls[g].req)
    /\ calls[g].ctxDoneAt # "before"
    /\ calls' = [calls EXCEPT ![g] =
           IF IsAPIError(resp.StatusCode)
           THEN [@ EXCEPT !.pc = "done", !.resp = resp, !.closes = @ + 1,
                          !.ret = CallReturn(calls[g].dest, Nil, APIError(resp))]
           ELSE IF calls[g].dest = "none"
           THEN [@ EXCEPT !.pc = "done", !.resp = resp, !.closes = @ + 1,
                          !.ret = [val |-> Nil, err |-> Nil]]
           ELSE [@ EXCEPT !.pc = "decode", !.resp = resp]]
    /\ UNCHANGED <<heap, clients, lastNew>>

\* The errors with which reading g's response body may end now.
ReadErrors(g) ==
    {NetError}
    \cup (IF CtxDone(calls[g].ctx) THEN {CtxErr(calls[g].ctx)} ELSE {})
    \cup (IF calls[g].tmo > 0 THEN {TimeoutError} ELSE {})

\* json.NewDecoder(resp.Body).Decode(v) finishes: readErr is Nil when the
\* body was read, else the error of the read.  Then do and the call return.
DecodeBody(g, readErr) ==
    /\ calls[g].pc = "decode"
    /\ readErr \in ReadErrors(g) \cup {Nil}
    /\ LET T == DestType(calls[g].dest)
           r == IF readErr # Nil THEN [val |-> Zero(T), err |-> readErr]
                ELSE Decode(T, calls[g].resp.Body, Zero(T))
       IN  calls' = [calls EXCEPT
               ![g].pc = "done", ![g].decodes = @ + 1, ![g].closes = @ + 1,
               ![g].stored = [v |-> r.val], ![g].decErr = r.err,
               ![g].ret = CallReturn(calls[g].dest, r.val,
                                     IF r.err # Nil THEN DecodeError(r.err) ELSE Nil)]
    /\ UNCHANGED <<heap, clients, lastNew>>

\* The caller cancels g's context, or its deadline passes, during the call.
CtxEnds(g, how) ==
    /\ calls[g].pc \in {"do", "sendErr", "decode"}
    /\ calls[g].ctx = "live"
    /\ calls' = [calls EXCEPT ![g].ctx = how, ![g].ctxDoneAt = calls[g].pc]
    /\ UNCHANGED <<heap, clients, lastNew>>

\* The caller has the result; the goroutine is free for its next call.
Return(g) ==
    /\ calls[g].pc = "done"
    /\ calls' = [calls EXCEPT ![g] = IdleCall]
    /\ UNCHANGED <<heap, clients, lastNew>>

----------------------------------------------------------------------------
(* The program: construction of clients and API calls on them.             *)

\* The state after NewClient returned r.
Constructed(username, password, opts, r) ==
    /\ heap' = r.heap
    /\ clients' = Append(clients, r.client)
    /\ lastNew' = [username |-> username, password |-> password, opts |-> opts,
                   heapBefore |-> heap, client |-> r.client, err |-> r.err]

\* NewClient(username, password, opts...) is called and returns: clients
\* holds what each call of NewClient returned, Nil when it returned an error.
NewClientAct(username, password, opts) ==
    /\ Len(clients) < Cardinality(ClientIds)
    /\ Constructed(username, password, opts, NewClient(heap, username, password, opts))
    /\ UNCHANGED calls

\* Inputs.
Usernames == {<<>>, <<"u">>, <<"u", ":", "v">>}

Passwords == {<<>>, <<"p">>}

MockURL == <<"http", ":", "/", "/", "mock", "/">>

\* Base URL texts: with and without a final slash, without a host, and two
\* that url.Parse refuses.
BaseURLTexts ==
    {MockURL, <<"http", ":", "/", "/", "mock", "/", "v1">>, <<"mock", "/">>,
     <<":", "mock">>, <<"http", ":", "/", "/", "mock", "/", "%">>}

\* Those of them that construction is explored with.
NewBaseURLTexts == {MockURL, <<"http", ":", "/", "/", "mock", "/", "v1">>, <<":", "mock">>}

\* The http.Client values the caller owns: address 1 of the store.
CallerHTTPClients == {1}

Timeouts == {0, 5}

Options ==
    {OptHTTPClient(a) : a \in CallerHTTPClients \cup {NilPtr}}
    \cup {OptBaseURL(b) : b \in NewBaseURLTexts}
    \cup {OptTimeout(t) : t \in Timeouts}

OptLists(n) == UNION {[1..k -> Options] : k \in 0..n}

Ops == {"GetDevices", "GetValues", "GetValuesInPast", "GetValuesInPastMultiple"}

Contexts == {"nil", "live", "canceled", "deadline"}

Times ==
    {[wall |-> "2025-01-01T12:00:00", offset |-> "Z"],
     [wall |-> "2025-06-01T08:30:00", offset |-> "+02:00"]}

\* The timestamps an operation takes.
Dates(op, T) ==
    CASE op = "GetValuesInPast" -> [1..1 -> T]
      [] op = "GetValuesInPastMultiple" -> [1..2 -> T]
      [] OTHER -> {<<>>}

IdTokens == {"x", "/", ".", "?", "#", "%"}

DeviceIDs(n) == UNION {[1..k -> IdTokens] : k \in 0..n}

Init ==
    /\ heap = <<[Timeout |-> 0]>>
    /\ clients = <<>>
    /\ lastNew = Nil
    /\ calls = [g \in Goroutines |-> IdleCall]

\* The whole program: clients are constructed and called, contexts end and
\* the transport answers.
CallOptLists ==
    {<<>>, <<OptBaseURL(MockURL), OptHTTPClient(1)>>,
     <<OptHTTPClient(1), OptTimeout(5)>>, <<OptBaseURL(<<"mock", "/">>)>>}

\* Construction alone: after an earlier construction, which may have shared
\* the caller's http.Client and written to it, NewClient is called with
\* every username, password and list of options.
NextNew ==
    \/ \E opts \in CallOptLists :
           clients = <<>> /\ NewClientAct(<<"u">>, <<>>, opts)
    \/ \E u \in {<<>>, <<"u">>}, p \in Passwords, opts \in OptLists(MaxOpts) :
           clients # <<>> /\ NewClientAct(u, p, opts)

SpecNew == Init /\ [][NextNew]_vars

CallDeviceIDs == {<<>>, <<"x">>, <<"%">>}

CallTimes == {[wall |-> "2025-01-01T12:00:00", offset |-> "Z"]}

StatusCodes == {200, 304, 400, 500}

ValueJSON == JObj([date |-> JStr(<<"2025-01-01T12:00:00", "Z">>), value |-> JNum(5)])

Bodies == {JBad, JArr(<<>>), ValueJSON}

Responses == {Response(code, body) : code \in StatusCodes, body \in Bodies}

AllSendErrors ==
    {DoError(e) : e \in {NetError, SchemeError, TimeoutError, Canceled, DeadlineExceeded}}

AllReadErrors == {Nil, NetError, TimeoutError, Canceled, DeadlineExceeded}

Next ==
    \/ \E u \in Usernames \ {<<>>}, opts \in CallOptLists :
           NewClientAct(u, <<"p">>, opts)
    \/ \E g \in Goroutines, i \in ClientIds, op \in Ops, ctx \in Contexts,
          deviceID \in CallDeviceIDs :
           \E dates \in Dates(op, CallTimes) : StartCall(g, i, op, ctx, deviceID, dates)
    \/ \E g \in Goroutines, err \in AllSendErrors : DoFails(g, err)
    \/ \E g \in Goroutines : HandleSendError(g)
    \/ \E g \in Goroutines, resp \in Responses : DoReturns(g, resp)
    \/ \E g \in Goroutines, readErr \in AllReadErrors : DecodeBody(g, readErr)
    \/ \E g \in Goroutines, how \in {"canceled", "deadline"} : CtxEnds(g, how)
    \/ \E g \in Goroutines : Return(g)

Spec == Init /\ [][Next]_vars

\* The send ends once the context is done: the transport gives up the round
\* trip, or the response that was on its way arrives.
DoEnds(g) ==
    /\ CtxDone(calls[g].ctx)
    /\ \/ \E err \in AllSendErrors : DoFails(g, err)
       \/ \E resp \in Responses : DoReturns(g, resp)

\* The read of the body ends once the context is done.
ReadEnds(g) ==
    /\ CtxDone(calls[g].ctx)
    /\ \E readErr \in AllReadErrors : DecodeBody(g, readErr)

\* The program with the progress its scheduling gives: the library's own
\* steps are taken, and a send or read whose context is done comes to an end.
FairSpec ==
    /\ Init /\ [][Next]_vars
    /\ \A g \in Goroutines :
           /\ WF_vars(DoEnds(g))
           /\ WF_vars(HandleSendError(g))
           /\ WF_vars(ReadEnds(g))

\* Request construction alone: one client with a base URL of the caller's
\* choice, called with every device identifier; each send fails.
NextURL ==
    \/ \E b \in BaseURLTexts :
           clients = <<>> /\ NewClientAct(<<"u">>, <<"p">>, <<OptBaseURL(b)>>)
    \/ \E g \in Goroutines, op \in Ops, deviceID \in DeviceIDs(MaxIdLen) :
           \E dates \in Dates(op, Times) : StartCall(g, 1, op, "live", deviceID, dates)
    \/ \E g \in Goroutines, err \in AllSendErrors : DoFails(g, err)
    \/ \E g \in Goroutines : HandleSendError(g)
    \/ \E g \in Goroutines : Return(g)

SpecURL == Init /\ [][NextURL]_vars

\* The values a field of a device record may have in a response: missing
\* (not in the object), null, the zero value, another value, or a value of
\* the wrong type.
DeviceFieldValues(key) ==
    IF key = "id" THEN {JNull, JStr(<<>>), JStr(<<"a">>), JNum(7)}
    ELSE {JNull, JNum(0), JNum(5)}

DeviceObjects ==
    UNION {{JObj(o) : o \in {f \in [S -> DeviceFieldValues("id")
                                           \cup DeviceFieldValues("activePower")] :
                                 \A key \in S : f[key] \in DeviceFieldValues(key)}} :
           S \in SUBSET {"id", "activePower"}}

DeviceBodies(n) == UNION {{JArr(a) : a \in [1..k -> DeviceObjects]} : k \in 0..n}

\* GetDevices alone: the default client lists devices and the server answers
\* 200 with an array of device records, which is read to its end.
NextDevices ==
    \/ clients = <<>> /\ NewClientAct(<<"u">>, <<"p">>, <<>>)
    \/ \E g \in Goroutines : StartCall(g, 1, "GetDevices", "live", <<>>, <<>>)
    \/ \E g \in Goroutines, body \in DeviceBodies(MaxDevices) :
           DoReturns(g, Response(200, body))
    \/ \E g \in Goroutines : DecodeBody(g, Nil)
    \/ \E g \in Goroutines : Return(g)

SpecDevices == Init /\ [][NextDevices]_vars

\* A Value whose value has the wrong type, after a date that decodes.
PartialValueJSON ==
    JObj([date |-> JStr(<<"2025-01-01T12:00:00", "Z">>), value |-> JStr(<<"x">>)])

DeviceValuesJSON ==
    JObj([deviceId |-> JStr(<<"a">>),
          values |-> JArr(<<JObj([obis |-> JStr(<<"o">>), value |-> JNum(5)])>>)])

DecodeBodies ==
    {JBad, JNull, JArr(<<>>), ValueJSON, PartialValueJSON, DeviceValuesJSON,
     JArr(<<ValueJSON, PartialValueJSON>>),
     JArr(<<JObj([id |-> JStr(<<"a">>)]), JObj([id |-> JNum(7)])>>)}

\* Decoding alone: every call of the default client is answered with every
\* status and body, and the read of the body ends well or fails.
NextDecode ==
    \/ clients = <<>> /\ NewClientAct(<<"u">>, <<"p">>, <<>>)
    \/ \E g \in Goroutines, op \in Ops :
           \E dates \in Dates(op, CallTimes) : StartCall(g, 1, op, "live", <<"x">>, dates)
    \/ \E g \in Goroutines, code \in {200, 304, 399, 400}, body \in DecodeBodies :
           DoReturns(g, Response(code, body))
    \/ \E g \in Goroutines, readErr \in AllReadErrors : DecodeBody(g, readErr)
    \/ \E g \in Goroutines : Return(g)

SpecDecode == Init /\ [][NextDecode]_vars

----------------------------------------------------------------------------
(* Construction claims, checked under SpecNew.                             *)

\* C3: NewClient returns an error and no client exactly when the username
\* is empty, whatever the password and the options; with an empty username
\* no option is applied (the store of http.Client values is left as it was).
C3_NewClientFailsIffEmptyUsername ==
    lastNew # Nil =>
        /\ (lastNew.err # Nil) <=> (lastNew.username = <<>>)
        /\ (lastNew.client = Nil) <=> (lastNew.username = <<>>)
        /\ lastNew.username = <<>> =>
               /\ lastNew.err = ErrUsername
               /\ heap = lastNew.heapBefore
        /\ clients[Len(clients)] = lastNew.client

\* An empty username with a password and options that would write to the
\* caller's http.Client, after a construction with an empty password succeeded.
C3_Witness ==
    /\ Len(clients) = 2
    /\ clients[1] # Nil
    /\ clients[1].password = <<>>
    /\ lastNew.username = <<>>
    /\ lastNew.password = <<"p">>
    /\ lastNew.opts = <<OptHTTPClient(1), OptTimeout(5)>>
    /\ lastNew.err = ErrUsername
    /\ clients[2] = Nil

\* The last index of opts that satisfies P, 0 when there is none.
LastOpt(opts, P(_, _)) ==
    IF \E i \in 1..Len(opts) : P(opts, i)
    THEN CHOOSE i \in 1..Len(opts) :
             P(opts, i) /\ \A j \in (i + 1)..Len(opts) : ~P(opts, j)
    ELSE 0

SetsBaseURL(opts, i) == opts[i].kind = "WithBaseURL" /\ Parse(opts[i].arg).err = Nil

SetsTransport(opts, i) == opts[i].kind = "WithHTTPClient"

\* The transport that is current when option i runs: the argument of the
\* last WithHTTPClient before it (NilPtr when there is none).
CurrentAt(opts, i) ==
    LET j == LastOpt(SubSeq(opts, 1, i - 1), SetsTransport)
    IN  IF j = 0 THEN NilPtr ELSE opts[j].arg

\* C8: the client NewClient returns is the defaults with the options applied
\* in the order given: the base URL is that of the last WithBaseURL whose
\* argument parses (the default when there is none); the transport is that of
\* the last WithHTTPClient, and a new one when that is nil or missing; its
\* timeout is that of the last WithTimeout applied to it, else what it had
\* (10 seconds for a new one).
C8_OptionsApplyInOrder ==
    (lastNew # Nil /\ lastNew.username # <<>>) =>
        LET opts == lastNew.opts
            c == lastNew.client
            b == LastOpt(opts, SetsBaseURL)
            given == CurrentAt(opts, Len(opts) + 1)
            SetsTimeout(o, i) ==
                o[i].kind = "WithTimeout" /\ given # NilPtr /\ CurrentAt(o, i) = given
            SetsTimeoutLate(o, i) ==
                o[i].kind = "WithTimeout" /\ i > LastOpt(o, SetsTransport)
            t == IF given # NilPtr THEN LastOpt(opts, SetsTimeout)
                 ELSE LastOpt(opts, SetsTimeoutLate)
        IN  /\ c.username = lastNew.username
            /\ c.password = lastNew.password
            /\ c.baseURL = IF b = 0 THEN Parse(defaultBaseURL).url
                           ELSE Parse(opts[b].arg).url
            /\ IF given # NilPtr THEN c.httpClient = given
               ELSE c.httpClient \notin DOMAIN lastNew.heapBefore
            /\ c.httpClient \in DOMAIN heap
            /\ heap[c.httpClient].Timeout =
                   IF t # 0 THEN opts[t].arg
                   ELSE IF given # NilPtr THEN lastNew.heapBefore[given].Timeout
                   ELSE defaultTimeout

\* A second construction whose WithTimeout acts on a transport that the later
\* WithHTTPClient replaces: the client gets the caller's transport with the
\* timeout an earlier construction left on it.
C8_Witness ==
    /\ lastNew # Nil
    /\ lastNew.username # <<>>
    /\ Len(clients) = 2
    /\ clients[1] # Nil
    /\ lastNew.heapBefore[1].Timeout = 5
    /\ lastNew.opts = <<OptTimeout(0), OptHTTPClient(1)>>
    /\ lastNew.client.httpClient = 1
    /\ heap[1].Timeout = 5

----------------------------------------------------------------------------
(* Call claims, checked under Spec.                                        *)

ValueOps == {"GetValues", "GetValuesInPast", "GetValuesInPastMultiple"}

\* C1: a call of GetValues, GetValuesInPast or GetValuesInPastMultiple with
\* an empty device identifier returns the validation error and no result, and
\* nothing is handed to the transport for it, whatever the context, the
\* timestamps and the client's configuration are.
C1_EmptyDeviceIDIsRefusedLocally ==
    \A g \in Goroutines :
        (calls[g].op \in ValueOps /\ calls[g].deviceID = <<>>) =>
            /\ calls[g].pc = "done"
            /\ calls[g].ret = [val |-> Nil, err |-> ErrDeviceID]
            /\ calls[g].sends = 0
            /\ calls[g].req = Nil
            /\ calls[g].resp = Nil

\* GetValuesInPastMultiple with an empty identifier and a nil context on a
\* client whose base URL names no host.
C1_Witness ==
    /\ calls[1].pc = "done"
    /\ calls[1].op = "GetValuesInPastMultiple"
    /\ calls[1].deviceID = <<>>
    /\ calls[1].ctx = "nil"
    /\ clients[calls[1].client].baseURL.Host = <<>>
    /\ calls[1].ret.err = ErrDeviceID
    /\ calls[1].sends = 0

\* C2: for every call and every response with a status code of 400 or more,
\* whatever its body, the call returns no result and the error whose text is
\* "API error: <status> (status code: <code>)", and the body is not decoded.
C2_StatusFrom400IsAPIError ==
    \A g \in Goroutines :
        (calls[g].resp # Nil /\ calls[g].resp.StatusCode >= 400) =>
            /\ calls[g].pc = "done"
            /\ calls[g].ret.val = Nil
            /\ calls[g].ret.err =
                   [kind |-> "api",
                    text |-> <<"API error: ">> \o calls[g].resp.Status
                                 \o <<" (status code: ">>
                                 \o Itoa(calls[g].resp.StatusCode) \o <<")">>]
            /\ calls[g].decodes = 0
            /\ calls[g].stored = Nil

\* GetValues answered with 500 and a body that would decode.
C2_Witness ==
    /\ calls[1].pc = "done"
    /\ calls[1].op = "GetValues"
    /\ calls[1].resp # Nil
    /\ calls[1].resp.StatusCode = 500
    /\ calls[1].resp.Body = ValueJSON
    /\ calls[1].ret.val = Nil
    /\ calls[1].ret.err.text =
           <<"API error: ", "5", "0", "0", " ", "Internal Server Error",
             " (status code: ", "5", "0", "0", ")">>

\* C4: every request handed to the transport carries Basic authentication
\* from which the receiver reads exactly the username and the password the
\* client was constructed with, and the header Accept: application/json.
C4_RequestCarriesCredentials ==
    \A g \in Goroutines :
        calls[g].sends > 0 =>
            /\ "Authorization" \in DOMAIN calls[g].req.Header
            /\ calls[g].req.Header["Authorization"].scheme = "Basic"
            /\ BasicAuth(calls[g].req.Header["Authorization"])
                   = <<clients[calls[g].client].username,
                       clients[calls[g].client].password>>
            /\ "Accept" \in DOMAIN calls[g].req.Header
            /\ calls[g].req.Header["Accept"] = "application/json"

\* C7: once NewClient has returned a client, its base URL, username,
\* password and the timeout of its transport never change, whatever is
\* called or constructed afterwards.
C7_ConfigurationNeverChanges ==
    [][\A i \in 1..Len(clients) :
          clients[i] # Nil =>
              /\ clients'[i] = clients[i]
              /\ heap'[clients[i].httpClient].Timeout
                     = heap[clients[i].httpClient].Timeout]_vars

\* C10: a call that built its request hands it to the transport once and
\* never again, a call that did not build one hands over nothing, and what
\* the call returns is the outcome of that one attempt: the send's failure
\* (or the context's error in its place), the API error of the response, a
\* decoding error, or the decoded value.
C10_OneSendPerCall ==
    \A g \in Goroutines :
        /\ calls[g].sends = (IF calls[g].req # Nil THEN 1 ELSE 0)
        /\ calls[g].decodes <= 1
        /\ (calls[g].pc = "done" /\ calls[g].req # Nil) =>
               /\ (calls[g].sendErr # Nil) # (calls[g].resp # Nil)
               /\ calls[g].sendErr # Nil =>
                      /\ calls[g].ret.val = Nil
                      /\ calls[g].ret.err
                             \in {calls[g].sendErr, CtxErr(calls[g].ctx)} \ {Nil}
               /\ (calls[g].resp # Nil /\ calls[g].resp.StatusCode >= 400) =>
                      calls[g].ret.err.kind = "api"
               /\ (calls[g].resp # Nil /\ calls[g].resp.StatusCode < 400) =>
                      /\ calls[g].decodes = 1
                      /\ \/ calls[g].ret.err = Nil
                         \/ calls[g].ret.err # Nil
                            /\ calls[g].ret.err.kind = "decode"
                            /\ calls[g].ret.val = Nil

\* A send that failed with a network error while the context is live: the
\* call returns that error after its one attempt.
C10_Witness ==
    /\ calls[1].pc = "done"
    /\ calls[1].req # Nil
    /\ calls[1].ctx = "live"
    /\ calls[1].sendErr = DoError(NetError)
    /\ calls[1].ret = [val |-> Nil, err |-> DoError(NetError)]
    /\ calls[1].sends = 1

----------------------------------------------------------------------------
(* Cancellation, checked under FairSpec.                                   *)

InFlight == {"do", "sendErr", "decode"}

\* C6 as stated: a call whose context ended while its request was in
\* flight returns the context's error and no result.
C6_CancellationIsTheError ==
    \A g \in Goroutines :
        (calls[g].pc = "done" /\ calls[g].ctxDoneAt \in InFlight) =>
            calls[g].ret = [val |-> Nil, err |-> CtxErr(calls[g].ctx)]

\* C6 as the code has it: a call whose context ended while its request was
\* in flight eventually returns; it returns exactly the context's error when
\* the send failed, and when the transport had handed back a response it
\* returns the API error of a status of 400 or more, else a decoding error
\* (around the error of the aborted read) or the decoded value.
C6_CancelledCallReturns ==
    /\ [](\A g \in Goroutines :
            (calls[g].pc = "done" /\ calls[g].ctxDoneAt \in InFlight) =>
                /\ calls[g].sendErr # Nil =>
                       calls[g].ret = [val |-> Nil, err |-> CtxErr(calls[g].ctx)]
                /\ (calls[g].resp # Nil /\ calls[g].resp.StatusCode >= 400) =>
                       calls[g].ret.err.kind = "api"
                /\ (calls[g].resp # Nil /\ calls[g].resp.StatusCode < 400) =>
                       \/ calls[g].ret.err = Nil
                       \/ calls[g].ret.err # Nil
                          /\ calls[g].ret.err.kind = "decode"
                          /\ calls[g].ret.val = Nil)
    /\ \A g \in Goroutines :
           (calls[g].pc \in InFlight /\ CtxDone(calls[g].ctx))
               ~> (calls[g].pc = "done")

\* The deadline passed during the send, the transport gave up with its own
\* error around it, and the call returned the context's error itself.
C6_Witness ==
    /\ calls[1].pc = "done"
    /\ calls[1].ctxDoneAt = "do"
    /\ calls[1].ctx = "deadline"
    /\ calls[1].sendErr = DoError(DeadlineExceeded)
    /\ calls[1].ret = [val |-> Nil, err |-> DeadlineExceeded]

----------------------------------------------------------------------------
(* The request's URL, checked under SpecURL.                               *)

EndpointPath(op) ==
    CASE op = "GetDevices" -> <<"api", "/", "Devices">>
      [] op = "GetValues" -> <<"api", "/", "Values">>
      [] op = "GetValuesInPast" -> <<"api", "/", "ValuesInPast">>
      [] op = "GetValuesInPastMultiple" -> <<"api", "/", "ValuesInPastMultiple">>

\* The path of the base URL as a directory.
BaseDir(base) ==
    IF base.Path # <<>> /\ base.Path[Len(base.Path)] = "/" THEN base.Path
    ELSE base.Path \o <<"/">>

ExpectedPath(base, op, deviceID) ==
    BaseDir(base) \o EndpointPath(op)
        \o (IF op = "GetDevices" THEN <<>> ELSE <<"/">> \o deviceID)

ExpectedQuery(op, dates) ==
    CASE op = "GetValuesInPast" -> <<"date=">> \o FormatRFC3339(dates[1])
      [] op = "GetValuesInPastMultiple" ->
            <<"startDate=">> \o FormatRFC3339(dates[1])
                \o <<"&", "endDate=">> \o FormatRFC3339(dates[2])
      [] OTHER -> <<>>

\* C9: for a client whose base URL is absolute, the request a call sends is
\* a GET of the base URL's host whose path is the endpoint's path under the
\* base URL's path with the identifier as its last segment, and whose query
\* is exactly the endpoint's parameters with the timestamps in RFC 3339 form,
\* whatever the identifier and the base URL are.
C9_RequestURLIsTheEndpoint ==
    \A g \in Goroutines :
        (calls[g].sends > 0 /\ Sendable(calls[g].req)) =>
            /\ calls[g].req.Method = "GET"
            /\ calls[g].req.URL.Scheme = clients[calls[g].client].baseURL.Scheme
            /\ calls[g].req.URL.Host = clients[calls[g].client].baseURL.Host
            /\ calls[g].req.URL.Path =
                   ExpectedPath(clients[calls[g].client].baseURL, calls[g].op,
                                calls[g].deviceID)
            /\ calls[g].req.URL.RawQuery = ExpectedQuery(calls[g].op, calls[g].dates)
            /\ ~calls[g].req.URL.ForceQuery
            /\ calls[g].req.URL.Fragment = <<>>

----------------------------------------------------------------------------
(* The list of devices, checked under SpecDevices.                         *)

\* A field is present in a record of the response when the object has the
\* key with a value other than null.
Present(o, key) == key \in DOMAIN o /\ o[key] # JNull

WellTyped(o, key) ==
    Present(o, key) => o[key].t = (IF key = "id" THEN "string" ELSE "number")

\* The response is an array of device records.
IsDeviceArray(body) ==
    /\ body.t = "array"
    /\ \A k \in 1..Len(body.a) :
           /\ body.a[k].t = "object"
           /\ \A key \in {"id", "activePower"} : WellTyped(body.a[k].o, key)

\* The field of the result that stands for the field key of record o: a
\* pointer to the value when it is present, nil when it is absent.
ExpectedField(o, key) ==
    IF ~Present(o, key) THEN Nil
    ELSE IF key = "id" THEN [ptr |-> [str |-> o[key].s]]
    ELSE [ptr |-> [num |-> o[key].n]]

\* C5: when the answer to GetDevices is 200 with an array of N device
\* records, the call returns no error and N records in the order of the
\* array, and each field of each record is present with the response's value
\* exactly when it is present in the response: an absent field is nil, not a
\* zero value, and a present zero is a pointer to zero, not nil.
C5_DevicesAreReturnedAsSent ==
    \A g \in Goroutines :
        (/\ calls[g].pc = "done"
         /\ calls[g].op = "GetDevices"
         /\ calls[g].resp # Nil
         /\ calls[g].resp.StatusCode = 200
         /\ IsDeviceArray(calls[g].resp.Body)) =>
            /\ calls[g].ret.err = Nil
            /\ calls[g].ret.val # Nil
            /\ Len(calls[g].ret.val.elems) = Len(calls[g].resp.Body.a)
            /\ \A k \in 1..Len(calls[g].resp.Body.a) :
                   \A key \in {"id", "activePower"} :
                       calls[g].ret.val.elems[k].fields[key]
                           = ExpectedField(calls[g].resp.Body.a[k].o, key)

\* Two records: the first has an empty id and no power, the second a power
\* of zero and a null id.
C5_Witness ==
    /\ calls[1].pc = "done"
    /\ calls[1].op = "GetDevices"
    /\ calls[1].resp # Nil
    /\ calls[1].resp.Body =
           JArr(<<JObj([id |-> JStr(<<>>)]),
                  JObj([id |-> JNull, activePower |-> JNum(0)])>>)
    /\ calls[1].ret.err = Nil
    /\ calls[1].ret.val.elems[1].fields.id = [ptr |-> [str |-> <<>>]]
    /\ calls[1].ret.val.elems[1].fields.activePower = Nil
    /\ calls[1].ret.val.elems[2].fields.id = Nil
    /\ calls[1].ret.val.elems[2].fields.activePower = [ptr |-> [num |-> 0]]

----------------------------------------------------------------------------
(* Decoding, checked under SpecDecode.                                     *)

\* C11: for every response with a status code below 400 the body is decoded
\* exactly when the call passed a destination; when decoding fails the call
\* returns no result, whatever was stored before the failure, and the error
\* "error decoding response" around the decoder's error; when it succeeds
\* the call returns what was decoded and no error.
C11_DecodeBelow400 ==
    \A g \in Goroutines :
        (/\ calls[g].pc = "done"
         /\ calls[g].resp # Nil
         /\ calls[g].resp.StatusCode < 400) =>
            /\ calls[g].decodes = (IF calls[g].dest # "none" THEN 1 ELSE 0)
            /\ calls[g].decodes = 1 =>
                   IF calls[g].decErr # Nil
                   THEN calls[g].ret =
                            [val |-> Nil,
                             err |-> [kind |-> "decode",
                                      msg |-> "error decoding response",
                                      wraps |-> calls[g].decErr]]
                   ELSE /\ calls[g].ret.err = Nil
                        /\ calls[g].stored.v =
                               Unmarshal(DestType(calls[g].dest), calls[g].resp.Body,
                                         Zero(DestType(calls[g].dest))).val
                        /\ calls[g].ret.val =
                               (IF calls[g].dest \in {"DeviceValues", "Value"}
                                THEN [ptr |-> calls[g].stored.v]
                                ELSE calls[g].stored.v)

\* GetValuesInPast answered with 304 and a record whose date decodes and
\* whose value does not: the destination holds the date, the call returns
\* nil and the wrapped error.
C11_Witness ==
    /\ calls[1].pc = "done"
    /\ calls[1].op = "GetValuesInPast"
    /\ calls[1].resp # Nil
    /\ calls[1].resp.StatusCode = 304
    /\ calls[1].resp.Body = PartialValueJSON
    /\ calls[1].stored.v.fields.date =
           [time |-> [wall |-> "2025-01-01T12:00:00", offset |-> "Z"]]
    /\ calls[1].decErr = TypeError
    /\ calls[1].ret.val = Nil
    /\ calls[1].ret.err = [kind |-> "decode", msg |-> "error decoding response",
                           wraps |-> TypeError]

----------------------------------------------------------------------------
(* The response body and failed sends, checked under Spec.                 *)

\* C12: the body of a response the transport handed back is closed once,
\* and only once, before the call returns, on every path (API error, failed
\* decoding, success); it is open only while do works on it, no call that
\* has returned leaves one open, and without a response nothing is closed.
C12_BodyClosedOnce ==
    \A g \in Goroutines :
        /\ calls[g].closes <= 1
        /\ calls[g].pc = "done" =>
               calls[g].closes = (IF calls[g].resp # Nil THEN 1 ELSE 0)
        /\ calls[g].pc \in {"idle", "do", "sendErr"} =>
               calls[g].resp = Nil /\ calls[g].closes = 0
        /\ calls[g].pc = "decode" => calls[g].resp # Nil /\ calls[g].closes = 0
        /\ calls[g].sendErr # Nil => calls[g].resp = Nil /\ calls[g].closes = 0

\* A response of 400 whose body would not have decoded: closed once, and
\* never handed to the decoder.
C12_Witness ==
    /\ calls[1].pc = "done"
    /\ calls[1].resp # Nil
    /\ calls[1].resp.StatusCode = 400
    /\ calls[1].resp.Body = JBad
    /\ calls[1].decodes = 0
    /\ calls[1].closes = 1

\* C13: when the send fails, the call returns exactly the context's error
\* if the context is done when do handles the failure, and otherwise the
\* transport's error as it is, the expiry of the transport's own timeout
\* under a live context included; it returns no result, and no status is
\* classified and nothing is decoded.
C13_SendFailureError ==
    \A g \in Goroutines :
        (calls[g].pc = "done" /\ calls[g].sendErr # Nil) =>
            /\ calls[g].ret.val = Nil
            /\ calls[g].ctx \in {"canceled", "deadline"} =>
                   calls[g].ret.err =
                       (IF calls[g].ctx = "canceled" THEN Canceled ELSE DeadlineExceeded)
            /\ calls[g].ctx \notin {"canceled", "deadline"} =>
                   calls[g].ret.err = calls[g].sendErr
            /\ calls[g].resp = Nil
            /\ calls[g].decodes = 0
            /\ calls[g].stored = Nil

\* The transport's own timeout expired while the context was live: the call
\* returns the transport's error, not a context error.
C13_Witness ==
    /\ calls[1].pc = "done"
    /\ calls[1].ctx = "live"
    /\ calls[1].tmo > 0
    /\ calls[1].sendErr = DoError(TimeoutError)
    /\ calls[1].ret = [val |-> Nil, err |-> DoError(TimeoutError)]
    /\ calls[1].sends = 1
====
